---- MODULE Spec2Model ----
(***************************************************************************)
(* A model of the index-set crate: a fixed array of atomic words used as a *)
(* bit set (BitSet / SharedBitSet / BitSetMut) and the lock-free           *)
(* next-free-bit allocator AtomicBitSet::set_next_free_bit (the same       *)
(* algorithm as IdAllocator::next_id).  Every access to shared memory      *)
(* (an atomic load, store, fetch_or, fetch_and, compare-exchange) is one   *)
(* step of one thread.                                                     *)
(*                                                                         *)
(* Each atomic location has one modification order, and a read-modify-     *)
(* write reads the latest value in it, so the words are modelled as plain  *)
(* values updated one step at a time; the load that opens fetch_update is  *)
(* taken to read the latest value too.  The cursor is written and read     *)
(* with Relaxed stores and loads that nothing orders between threads, so a *)
(* load among threads returns any value the cursor has held (this allows   *)
(* every read the memory model allows, and some a thread's own earlier     *)
(* accesses would exclude).  A spurious failure of compare_exchange_weak   *)
(* hands back the value the call already holds and changes nothing: it is  *)
(* a stuttering step.                                                      *)
(***************************************************************************)
EXTENDS Integers, Sequences, FiniteSets, TLC

\* ------------------------------------------------------------- bounds
\* N, the number of words of the set (the const generic N).
NumSlots == 2
\* The width of a word in bits (usize::BITS, scaled down).
Bits == 2
\* The number of threads that share the set.
NumThreads == 2

\* ---------------------------------------------------------- word bit-ops
RECURSIVE Pow2(_)
Pow2(n) == IF n = 0 THEN 1 ELSE 2 * Pow2(n - 1)

\* usize::MAX for the modelled width.
WordMax == Pow2(Bits) - 1

\* Bit b of word x.
BitOf(x, b) == (x \div Pow2(b)) % 2

RECURSIVE BitOrFrom(_, _, _)
BitOrFrom(x, y, b) ==
    IF b = Bits THEN 0
    ELSE (IF BitOf(x, b) = 1 \/ BitOf(y, b) = 1 THEN Pow2(b) ELSE 0)
         + BitOrFrom(x, y, b + 1)
\* x | y
BitOr(x, y) == BitOrFrom(x, y, 0)

RECURSIVE BitAndFrom(_, _, _)
BitAndFrom(x, y, b) ==
    IF b = Bits THEN 0
    ELSE (IF BitOf(x, b) = 1 /\ BitOf(y, b) = 1 THEN Pow2(b) ELSE 0)
         + BitAndFrom(x, y, b + 1)
\* x & y
BitAnd(x, y) == BitAndFrom(x, y, 0)

\* !x, within the word's width
BitNot(x) == WordMax - x

\* 1 << b, within the word's width
Shl1(b) == Pow2(b) % Pow2(Bits)

RECURSIVE TrailingZerosFrom(_, _)
TrailingZerosFrom(x, b) ==
    IF b = Bits THEN Bits
    ELSE IF BitOf(x, b) = 1 THEN b ELSE TrailingZerosFrom(x, b + 1)
\* x.trailing_zeros(): the width when x = 0
TrailingZeros(x) == TrailingZerosFrom(x, 0)

RECURSIVE CountOnesFrom(_, _)
CountOnesFrom(x, b) ==
    IF b = Bits THEN 0 ELSE BitOf(x, b) + CountOnesFrom(x, b + 1)
\* x.count_ones()
CountOnes(x) == CountOnesFrom(x, 0)

\* --------------------------------------------------------------- domains
SlotIdx == 0..(NumSlots - 1)
\* The indices callers pass: every in-range index and some beyond the capacity.
Indices == 0..(NumSlots * Bits + Bits)
\* The threads of the concurrent specification.
Threads == 1..NumThreads
\* Every thread of any specification (the allocate-once scenario uses capacity + 1).
Procs == 1..(NumSlots * Bits + 1)

\* Option<T>: None is the empty set, Some(v) is {v}.
None == {}
Some(v) == {v}

VARIABLES
    bitset,      \* the words: [AtomicUsize; N]
    rotation,    \* the rotation cursor: AtomicUsize (the last value stored)
    stored,      \* shared runs: the values the cursor has held, which a Relaxed load may still return
    th,          \* per thread: the call in progress and its locals
    allocClaims, \* shared runs, per index: allocator calls that returned it since it was last freed
    firsts,      \* per index: calls that reported setting it since it was last freed
    shadow,      \* per index: the effect of the last operation on that bit
    seq,         \* TRUE when one thread owns the set and runs its calls one after another
    track,       \* what the run keeps a record of: "off", "retries" (failed compare-exchanges
                 \* and the writes behind them), "cursor" (the words of successful allocations)
                 \* or "full" (the words seen all ones and the bits freed during each call)
    won,         \* tracked runs: the word of the last successful allocation, and of all of them
    pre,         \* sequential runs: the words and cursor when the call began
    freed,       \* sequential runs: Some(i) when the previous call was a remove(i) that freed i
    exhaust,     \* sequential runs: 1 when the last call taken was an allocator call that returned
                 \* None, 2 when one remove was called right after it, else 0
    drain,       \* sequential runs: the bookkeeping of an allocate-until-exhausted loop
    vec,         \* a growable set: the words of a Vec<T>, word p at position p + 1
    vecPre       \* the words of the Vec when the call on it began

vars == <<bitset, rotation, stored, th, allocClaims, firsts, shadow, seq, track, won, pre, freed, exhaust,
          drain,
          vec, vecPre>>

\* ------------------------------------------------------------ read-only
\* self.len(): the number of words of the set, the const generic N of its type.
SelfLen == Cardinality(DOMAIN bitset)

\* BitSet::capacity: self.len() * BITS
Capacity == NumSlots * Bits

\* A lookup that wraps a word index beyond the end around to the start.
GetWrapping(slot_idx) == Some(slot_idx % NumSlots)

\* slice::get: the word index when it is in bounds
Get(slot_idx) == IF slot_idx < SelfLen THEN Some(slot_idx) ELSE None

\* BitSet::has for [AtomicUsize]
Has(slots, index) ==
    LET slot_idx == index \div Bits
        mask == Shl1(index % Bits)
    IN  \E s \in Get(slot_idx) : BitAnd(slots[s], mask) # 0

\* BitSet::is_empty
IsEmpty(slots) == \A s \in SlotIdx : slots[s] = 0

\* A size that counts the words that hold a bit, not the bits.
SizeOfWords(slots) == Cardinality({s \in SlotIdx : slots[s] # 0})

RECURSIVE SizeFrom(_, _)
SizeFrom(slots, s) ==
    IF s = NumSlots THEN 0 ELSE CountOnes(slots[s]) + SizeFrom(slots, s + 1)
\* BitSet::size
Size(slots) == SizeFrom(slots, 0)

\* An iteration that stays on the last word instead of wrapping to the first.
RotateNoWrap(n) ==
    [p \in 1..NumSlots |-> IF p <= NumSlots - n THEN n + p - 1 ELSE NumSlots - 1]

\* utils::rotate_left: the word indices in iteration order, right part then left
RotateLeft(n) ==
    [p \in 1..NumSlots |-> IF p <= NumSlots - n THEN n + p - 1 ELSE p - 1 - (NumSlots - n)]

\* ------------------------------------------------------------ the state
Idle ==
    [pc |-> "idle", op |-> "none", arg |-> 0, skip |-> 0, slot_idx |-> 0,
     pos |-> 0, curr |-> 0, ret |-> None, err |-> None, exp |-> None,
     fails |-> 0, writes |-> 0, full |-> {}, hit |-> FALSE]

NoDrain == [phase |-> "off", start |-> [s \in SlotIdx |-> 0], got |-> {}, n |-> 0,
            last |-> None, size |-> 0]

NoPre == [bitset |-> [s \in SlotIdx |-> 0], rotation |-> 0]

\* AtomicBitSet::<n>::new: n words, every word 0, the cursor 0; the callers in
\* D are idle.
NewOf(D, n) ==
    /\ bitset = [s \in 0..(n - 1) |-> 0]
    /\ rotation = 0
    /\ stored = {0}
    /\ th = [t \in D |-> Idle]
    /\ allocClaims = [i \in 0..(n * Bits - 1) |-> 0]
    /\ firsts = [i \in 0..(n * Bits - 1) |-> 0]
    /\ shadow = [i \in 0..(n * Bits - 1) |-> FALSE]
    /\ pre = NoPre
    /\ freed = None
    /\ exhaust = 0
    /\ drain = NoDrain
    /\ vec = <<>>
    /\ vecPre = <<>>
    /\ won = [last |-> None, words |-> {}]

\* AtomicBitSet::<NumSlots>::new.
New(D) == NewOf(D, NumSlots)

\* The one thread of a sequential run.
Owner == 1

\* Threads share the set.
Init == New(Threads) /\ seq = FALSE /\ track = "off"

\* One owner runs its calls one after another.
InitSeq == New({Owner}) /\ seq = TRUE /\ track = "off"

\* Capacity + 1 threads share the set.
InitOnce == New(Procs) /\ seq = FALSE /\ track = "off"

\* Threads share the set; the run counts the failed compare-exchanges.
InitRetry == New(Threads) /\ seq = FALSE /\ track = "retries"

\* The set is used either by one owner, call after call, or by threads that
\* share it; the run records the words of the successful allocations.
InitCursor == New(Threads) /\ seq \in BOOLEAN /\ track = "cursor"

\* Threads share the set; the run records, for each allocator call, the words
\* that were all ones at some instant of the call and whether a bit was freed
\* during it.
InitFull == New(Threads) /\ seq = FALSE /\ track = "full"

\* Threads share a set of no word at all (AtomicBitSet<0>) or of NumSlots words.
InitLen == (\E n \in {0, NumSlots} : NewOf(Threads, n)) /\ seq = FALSE /\ track = "off"

\* Bookkeeping helpers: count up to 2, and only at an index of the set.
Bump(f, i) == IF i \in DOMAIN f THEN [f EXCEPT ![i] = IF @ >= 2 THEN 2 ELSE @ + 1] ELSE f
Put(f, i, v) == IF i \in DOMAIN f THEN [f EXCEPT ![i] = v] ELSE f
\* The indices of word s.
BitsOfSlot(s) == {i \in 0..(Capacity - 1) : i \div Bits = s}
ghostSame == UNCHANGED <<allocClaims, firsts, shadow>>
\* A sequential run records the words and the cursor a call starts from.
Snapshot == pre' = IF seq THEN [bitset |-> bitset, rotation |-> rotation] ELSE pre
\* A sequential run records whether the call just made freed an occupied index.
NoteFreed(v) == freed' = IF seq THEN v ELSE freed

\* A sequential run records an allocator call that returned None and the
\* remove called right after it, as the caller takes the result of call r.
NoteTaken(r) ==
    exhaust' = IF ~seq THEN exhaust
               ELSE IF r.op = "alloc" THEN (IF r.ret = None THEN 1 ELSE 0)
               ELSE IF r.op \in {"remove", "mutremove"} /\ exhaust = 1 THEN 2
               ELSE 0

\* A caller may start a call: none of its own is in progress, and no
\* allocate-until-exhausted loop is running.
CanCall(t) == th[t].pc = "idle" /\ drain.phase = "off"

\* A call has returned: its result waits in th[t] until Return.
Done(op, arg, ret, err, exp) ==
    [Idle EXCEPT !.pc = "done", !.op = op, !.arg = arg, !.ret = ret, !.err = err,
                 !.exp = exp]

\* ------------------------------------------- AtomicBitSet::set_next_free_bit
\* The highest free bit of the word instead of the lowest.
RECURSIVE HighestFreeFrom(_, _)
HighestFreeFrom(curr, b) ==
    IF b = 0 \/ BitOf(curr, b) = 0 THEN b ELSE HighestFreeFrom(curr, b - 1)
NextAvailableBitHigh(curr) == HighestFreeFrom(curr, Bits - 1)

\* next_available_bit: (!curr).trailing_zeros()
NextAvailableBit(curr) == TrailingZeros(BitNot(curr))

\* A closure that takes every bit of a word that has a free one.
FetchUpdateAll(curr) == IF curr = WordMax THEN None ELSE Some(WordMax)

\* A closure that takes a word for full when its lowest bit is set.
FetchUpdateLow(curr) == IF BitOf(curr, 0) = 1 THEN None ELSE Some(BitOr(curr, Shl1(0)))

\* The closure of fetch_update: None when the slot is full, else curr | (1 << bit).
FetchUpdateFn(curr) ==
    IF curr = WordMax THEN None
    ELSE Some(BitOr(curr, Shl1(NextAvailableBit(curr))))

\* A plain store in place of the compare-exchange: it never fails.
CasAlways(word, expected) == TRUE

\* compare_exchange_weak succeeds only when the word still holds the value read.
CasSucceeds(word, expected) == word = expected

\* A result that leaves the bit offset out.
AllocResultNoBit(slot_idx, curr) == slot_idx * Bits

\* The value set_next_free_bit returns after a successful fetch_update.
AllocResult(slot_idx, curr) == slot_idx * Bits + NextAvailableBit(curr)

\* The word the iterator of the call of thread record r points at.
SlotAt(r) == RotateLeft(r.skip)[r.pos]

\* The words that are all ones.
FullSlots(slots) == {s \in DOMAIN slots : slots[s] = WordMax}
\* This step takes a bit from 1 to 0: a remove or a store of clear takes effect.
BitFreed == \E s \in DOMAIN bitset : BitAnd(bitset[s], BitNot(bitset'[s])) # 0

\* The counts of a tracked run stop at MaxFails failures (one more for writes).
MaxFails == NumThreads
\* The threads' records after a step of thread t: a thread other than t that
\* waits to compare-exchange a word the step changed has one more write to
\* that word behind it.
NoteWrites(t, thNew) ==
    IF track = "retries"
    THEN [u \in DOMAIN thNew |->
            IF /\ u # t
               /\ th[u].pc = "cas"
               /\ bitset'[SlotAt(th[u])] # bitset[SlotAt(th[u])]
            THEN [thNew[u] EXCEPT !.writes = IF @ > MaxFails THEN @ ELSE @ + 1]
            ELSE thNew[u]]
    ELSE IF track = "full"
    THEN [u \in DOMAIN thNew |->
            IF u # t /\ th[u].pc \in {"load", "cas", "store"}
            THEN [thNew[u] EXCEPT !.full = @ \cup FullSlots(bitset'),
                                  !.hit = @ \/ BitFreed]
            ELSE thNew[u]]
    ELSE thNew
\* The record of a call that leaves the word it counted on.
Uncounted(r) == [r EXCEPT !.fails = 0, !.writes = 0]
\* The record of a call whose compare-exchange failed once more.
Counted(r) ==
    IF track = "retries" THEN [r EXCEPT !.fails = IF @ >= MaxFails THEN @ ELSE @ + 1]
    ELSE r

\* A round that goes back to the word it came from.
NextSlotSame(r) == [r EXCEPT !.pc = "load", !.curr = 0]

\* The loop's slot_idx without its wrap to 0.
NextSlotNoWrap(r) ==
    IF r.pos + 1 > NumSlots
    THEN Done("alloc", 0, None, None, None)
    ELSE [r EXCEPT !.pc = "load", !.slot_idx = r.slot_idx + 1, !.pos = r.pos + 1,
                   !.curr = 0]

\* The end of one round of the for loop without success: slot_idx += 1 with its
\* wrap, and the iterator's next(); the call returns None when the iterator ends.
NextSlot(r) ==
    LET idx == IF r.slot_idx + 1 >= NumSlots THEN 0 ELSE r.slot_idx + 1
    IN  IF r.pos + 1 > NumSlots
        THEN [Done("alloc", 0, None, None, None) EXCEPT !.full = r.full, !.hit = r.hit]
        ELSE [r EXCEPT !.pc = "load", !.slot_idx = idx, !.pos = r.pos + 1, !.curr = 0]

\* The values self.rotation.load(Relaxed) can return: the owner of a sequential
\* run reads its own last store; among threads, no access orders the load after
\* the last store, so it returns some value the cursor has held.
RotationLoad == IF seq THEN {rotation} ELSE stored

\* let skip = self.rotation.load(Relaxed); rotate_left panics when skip > N.
BeginAlloc(t) ==
    /\ th[t].pc = "idle"
    /\ drain.phase # "end"
    /\ \E skip \in RotationLoad :
         LET r == [Idle EXCEPT !.op = "alloc", !.skip = skip, !.slot_idx = skip,
                               !.pos = 1,
                               !.full = IF track = "full" THEN FullSlots(bitset) ELSE {}]
         IN  th' = [th EXCEPT ![t] =
                      IF skip > SelfLen THEN [r EXCEPT !.pc = "panic"]
                      ELSE IF SelfLen = 0 THEN Done("alloc", 0, None, None, None)
                      ELSE [r EXCEPT !.pc = "load"]]
    /\ Snapshot
    /\ UNCHANGED <<bitset, rotation, seq, exhaust, won, track, vec, vecPre, stored, freed, drain>>
    /\ ghostSame

\* fetch_update's first load of the slot; a full slot ends the round at once.
FetchLoad(t) ==
    /\ th[t].pc = "load"
    /\ LET r == th[t]
           curr == bitset[SlotAt(r)]
       IN  th' = [th EXCEPT ![t] =
                    IF FetchUpdateFn(curr) = None THEN NextSlot(r)
                    ELSE [r EXCEPT !.pc = "cas", !.curr = curr]]
    /\ UNCHANGED <<bitset, rotation, seq, exhaust, won, track, vec, vecPre, stored, pre, freed, drain>>
    /\ ghostSame

\* The record of the successful allocations after one at word w.
Claimed(w) ==
    IF track = "cursor" THEN [last |-> Some(w), words |-> won.words \cup {w}] ELSE won

\* A success that returns without the store to the cursor.
CasOkNoStore(t) ==
    /\ th[t].pc = "cas"
    /\ LET r == th[t]
           w == SlotAt(r)
           res == AllocResult(r.slot_idx, r.curr)
       IN  /\ CasSucceeds(bitset[w], r.curr)
           /\ \E next \in FetchUpdateFn(r.curr) : bitset' = [bitset EXCEPT ![w] = next]
           /\ th' = NoteWrites(t, [th EXCEPT ![t] = Done("alloc", 0, Some(res), None, None)])
           /\ allocClaims' = IF seq THEN allocClaims ELSE Bump(allocClaims, res)
           /\ firsts' = Bump(firsts, res)
           /\ shadow' = Put(shadow, res, TRUE)
           /\ won' = Claimed(r.slot_idx)
    /\ UNCHANGED <<rotation, seq, exhaust, track, vec, vecPre, stored, pre, freed, drain>>

\* The compare-exchange succeeds: the bit is claimed, the result is fixed.
CasOk(t) ==
    /\ th[t].pc = "cas"
    /\ LET r == th[t]
           w == SlotAt(r)
           res == AllocResult(r.slot_idx, r.curr)
       IN  /\ CasSucceeds(bitset[w], r.curr)
           /\ \E next \in FetchUpdateFn(r.curr) : bitset' = [bitset EXCEPT ![w] = next]
           /\ th' = NoteWrites(t, [th EXCEPT ![t] =
                        IF r.skip # r.slot_idx
                        THEN Uncounted([r EXCEPT !.pc = "store", !.ret = Some(res)])
                        ELSE Done("alloc", 0, Some(res), None, None)])
           /\ allocClaims' = IF seq THEN allocClaims ELSE Bump(allocClaims, res)
           /\ firsts' = Bump(firsts, res)
           /\ shadow' = Put(shadow, res, TRUE)
           /\ won' = Claimed(r.slot_idx)
    /\ UNCHANGED <<rotation, seq, exhaust, track, vec, vecPre, stored, pre, freed, drain>>

\* A failed compare-exchange that keeps the value it compared with.
CasFailStale(t) ==
    /\ th[t].pc = "cas"
    /\ ~CasSucceeds(bitset[SlotAt(th[t])], th[t].curr)
    /\ th' = [th EXCEPT ![t] = Counted(th[t])]
    /\ UNCHANGED <<bitset, rotation, seq, exhaust, won, track, vec, vecPre, stored, pre, freed, drain>>
    /\ ghostSame

\* The compare-exchange fails: the value it read instead is tried next.
CasFail(t) ==
    /\ th[t].pc = "cas"
    /\ LET r == th[t]
           now == bitset[SlotAt(r)]
       IN  /\ ~CasSucceeds(now, r.curr)
           /\ th' = [th EXCEPT ![t] =
                        IF FetchUpdateFn(now) = None THEN Uncounted(NextSlot(r))
                        ELSE Counted([r EXCEPT !.curr = now])]
    /\ UNCHANGED <<bitset, rotation, seq, exhaust, won, track, vec, vecPre, stored, pre, freed, drain>>
    /\ ghostSame

\* A store of the cursor value the call began with.
StoreRotationSkip(t) ==
    /\ th[t].pc = "store"
    /\ rotation' = th[t].skip
    /\ stored' = IF seq THEN stored ELSE stored \cup {th[t].skip}
    /\ th' = [th EXCEPT ![t] = Done("alloc", 0, th[t].ret, None, None)]
    /\ UNCHANGED <<bitset, seq, exhaust, won, track, vec, vecPre, pre, freed, drain>>
    /\ ghostSame

\* A store of the index of the word after the one the call succeeded at.
StoreRotationNext(t) ==
    /\ th[t].pc = "store"
    /\ rotation' = th[t].slot_idx + 1
    /\ stored' = IF seq THEN stored ELSE stored \cup {th[t].slot_idx + 1}
    /\ th' = [th EXCEPT ![t] = Done("alloc", 0, th[t].ret, None, None)]
    /\ UNCHANGED <<bitset, seq, exhaust, won, track, vec, vecPre, pre, freed, drain>>
    /\ ghostSame

\* self.rotation.store(slot_idx, Relaxed), then return.
StoreRotation(t) ==
    /\ th[t].pc = "store"
    /\ rotation' = th[t].slot_idx
    /\ stored' = IF seq THEN stored ELSE stored \cup {th[t].slot_idx}
    /\ th' = [th EXCEPT ![t] = Done("alloc", 0, th[t].ret, None, None)]
    /\ UNCHANGED <<bitset, seq, exhaust, won, track, vec, vecPre, pre, freed, drain>>
    /\ ghostSame

\* ------------------------------------------ SharedBitSet for [AtomicUsize]
\* A store of the mask in place of the fetch_or.
FetchOrStore(old, mask) == mask
\* A fetch_and with the mask itself, its complement forgotten.
FetchAndNoComplement(old, notmask) == BitAnd(old, BitNot(notmask))
\* The bit of the word as it is after the insert.
PrevBitAfter(slot, mask) == BitAnd(BitOr(slot, mask), mask) # 0

\* A fetch_and that leaves no bit of the word.
FetchAndZero(old, notmask) == 0
\* fetch_or: the new word (the old one is what the caller gets back)
FetchOr(old, mask) == BitOr(old, mask)
\* fetch_and with the complemented mask
FetchAnd(old, notmask) == BitAnd(old, notmask)
\* slot & mask != 0: the previous value of the bit
PrevBit(slot, mask) == BitAnd(slot, mask) # 0

\* The word a successful lookup refers to.
Slot(got) == CHOOSE s \in got : TRUE

\* What the bookkeeping expects a call on index to get back.
Expected(index) == IF index \in DOMAIN shadow THEN Some(shadow[index]) ELSE None

\* SharedBitSet::insert(index): one fetch_or on the word of the index, or None
\* when the word index is out of bounds.
Insert(t, index) ==
    /\ CanCall(t)
    /\ LET slot_idx == index \div Bits
           mask == Shl1(index % Bits)
           got == Get(slot_idx)
           ret == IF got = None THEN None
                  ELSE Some(PrevBit(bitset[Slot(got)], mask))
       IN  /\ bitset' = IF got = None THEN bitset
                        ELSE [bitset EXCEPT ![Slot(got)] = FetchOr(@, mask)]
           /\ th' = NoteWrites(t, [th EXCEPT ![t] =
                                      Done("insert", index, ret, None, Expected(index))])
           /\ firsts' = IF ret = Some(FALSE) THEN Bump(firsts, index) ELSE firsts
           /\ shadow' = Put(shadow, index, TRUE)
    /\ Snapshot
    /\ NoteFreed(None)
    /\ UNCHANGED <<rotation, allocClaims, seq, exhaust, won, track, vec, vecPre, stored, drain>>

\* SharedBitSet::remove(index): one fetch_and, or None when out of bounds.
Remove(t, index) ==
    /\ CanCall(t)
    /\ LET slot_idx == index \div Bits
           mask == Shl1(index % Bits)
           got == Get(slot_idx)
           ret == IF got = None THEN None
                  ELSE Some(PrevBit(bitset[Slot(got)], mask))
       IN  /\ bitset' = IF got = None THEN bitset
                        ELSE [bitset EXCEPT ![Slot(got)] = FetchAnd(@, BitNot(mask))]
           /\ th' = NoteWrites(t, [th EXCEPT ![t] =
                                      Done("remove", index, ret, None, Expected(index))])
           /\ NoteFreed(IF ret = Some(TRUE) THEN Some(index) ELSE None)
    /\ firsts' = Put(firsts, index, 0)
    /\ allocClaims' = Put(allocClaims, index, 0)
    /\ shadow' = Put(shadow, index, FALSE)
    /\ Snapshot
    /\ UNCHANGED <<rotation, seq, exhaust, won, track, vec, vecPre, stored, drain>>

\* The bookkeeping of a word set to 0.
ForgetSlots(S) ==
    /\ firsts' = [i \in DOMAIN firsts |->
                    IF \E s \in S : i \in BitsOfSlot(s) THEN 0 ELSE firsts[i]]
    /\ allocClaims' = [i \in DOMAIN allocClaims |->
                    IF \E s \in S : i \in BitsOfSlot(s) THEN 0 ELSE allocClaims[i]]
    /\ shadow' = [i \in DOMAIN shadow |->
                    IF \E s \in S : i \in BitsOfSlot(s) THEN FALSE ELSE shadow[i]]

\* A clear that zeroes every word in one step.
ClearSlotAll(t, s) ==
    /\ bitset' = [w \in SlotIdx |-> 0]
    /\ th' = NoteWrites(t, [th EXCEPT ![t] =
                IF s + 1 >= NumSlots THEN Done("clear", 0, None, None, None)
                ELSE [Idle EXCEPT !.pc = "clear", !.op = "clear", !.pos = s + 1]])
    /\ ForgetSlots(SlotIdx)
    /\ UNCHANGED <<rotation, seq, exhaust, won, track, vec, vecPre, stored, drain>>

\* One round of SharedBitSet::clear's loop: slot.store(0) on word s.
ClearSlot(t, s) ==
    /\ bitset' = [bitset EXCEPT ![s] = 0]
    /\ th' = NoteWrites(t, [th EXCEPT ![t] =
                IF s + 1 >= NumSlots THEN Done("clear", 0, None, None, None)
                ELSE [Idle EXCEPT !.pc = "clear", !.op = "clear", !.pos = s + 1]])
    /\ ForgetSlots({s})
    /\ UNCHANGED <<rotation, seq, exhaust, won, track, vec, vecPre, stored, drain>>

\* SharedBitSet::clear begins: the store to the first word; the loop of a set
\* of no words ends at once.
BeginClear(t) ==
    /\ CanCall(t)
    /\ IF SelfLen = 0
       THEN /\ th' = [th EXCEPT ![t] = Done("clear", 0, None, None, None)]
            /\ UNCHANGED <<bitset, rotation, seq, exhaust, won, track, vec, vecPre, stored, drain>>
            /\ ghostSame
       ELSE ClearSlot(t, 0)
    /\ Snapshot
    /\ NoteFreed(None)

\* SharedBitSet::clear goes on: the store to the next word.
ClearStore(t) ==
    /\ th[t].pc = "clear"
    /\ ClearSlot(t, th[t].pos)
    /\ UNCHANGED <<pre, freed>>

\* BitSet::has(index): one load.
HasCall(t, index) ==
    /\ CanCall(t)
    /\ th' = [th EXCEPT ![t] = Done("has", index, Some(Has(bitset, index)), None, None)]
    /\ Snapshot
    /\ NoteFreed(None)
    /\ UNCHANGED <<bitset, rotation, seq, exhaust, won, track, vec, vecPre, stored, drain>>
    /\ ghostSame

\* ------------------------------------------------ capacity and slot_count
\* The largest value of the integer type in which capacity() and from_bits
\* compute (usize for the atomic set), scaled down: the capacity of the set
\* fits it, that of a set twice as long does not.
IndexMax == 2 * Capacity - 1

\* usize::div_ceil: the quotient, one more when there is a remainder.
DivCeil(n, d) == IF n % d > 0 THEN (n \div d) + 1 ELSE n \div d

\* slot_count::from_bits(n) = n.div_ceil(usize::BITS)
FromBits(n) == DivCeil(n, Bits)

\* capacity() of a set of len words: len * BITS in the integer type.  When the
\* product does not fit, a build with overflow checks panics (None here) and
\* a build without them wraps.
CapacityOutcomes(len) ==
    IF len * Bits <= IndexMax THEN {Some(len * Bits)}
    ELSE {None, Some((len * Bits) % (IndexMax + 1))}

\* The result of a capacity() call as the caller's record.
CapacityDone(op, arg, out) ==
    IF out = None THEN [Idle EXCEPT !.pc = "panic", !.op = op, !.arg = arg]
    ELSE Done(op, arg, out, None, None)

\* BitSet::capacity() on the set: self.len() * BITS.
CapacityCall(t) ==
    /\ CanCall(t)
    /\ \E out \in CapacityOutcomes(Cardinality(DOMAIN bitset)) :
         th' = [th EXCEPT ![t] = CapacityDone("capacity", 0, out)]
    /\ Snapshot
    /\ NoteFreed(None)
    /\ UNCHANGED <<bitset, rotation, seq, exhaust, won, track, vec, vecPre, stored, drain>>
    /\ ghostSame

\* slot_count::from_bits(n).
FromBitsCall(t, n) ==
    /\ CanCall(t)
    /\ th' = [th EXCEPT ![t] = Done("from_bits", n, Some(FromBits(n)), None, None)]
    /\ Snapshot
    /\ NoteFreed(None)
    /\ UNCHANGED <<bitset, rotation, seq, exhaust, won, track, vec, vecPre, stored, drain>>
    /\ ghostSame

\* capacity() of a set declared with from_bits(n) words, as in
\* AtomicBitSet<{ slot_count::from_bits(n) }>.
DeclaredCapacityCall(t, n) ==
    /\ CanCall(t)
    /\ \E out \in CapacityOutcomes(FromBits(n)) :
         th' = [th EXCEPT ![t] = CapacityDone("declared", n, out)]
    /\ Snapshot
    /\ NoteFreed(None)
    /\ UNCHANGED <<bitset, rotation, seq, exhaust, won, track, vec, vecPre, stored, drain>>
    /\ ghostSame

\* The caller takes the result; the thread is free for its next call.
Return(t) ==
    /\ th[t].pc = "done"
    /\ drain.phase = "off"
    /\ th' = [th EXCEPT ![t] = Idle]
    /\ NoteFreed(IF th[t].op \in {"remove", "mutremove"} THEN freed ELSE None)
    /\ NoteTaken(th[t])
    /\ pre' = NoPre
    /\ UNCHANGED <<bitset, rotation, seq, won, track, vec, vecPre, stored, drain>>
    /\ ghostSame

\* ----------------------------------------------------- BitSetMut for [T]
\* The index type T is the word type (u16, u32, u64, usize, u128), and a u128
\* (or, on a 32-bit target, a u64) holds word indices no usize can hold.
\* usize::MAX, scaled down: the largest array position a usize can hold.
UsizeMax == NumSlots + 1
\* The values of the index type T: word indices up to UsizeMax + 1.
MutIndices == 0..((UsizeMax + 2) * Bits - 1)

\* usize::try_from(x): Ok(x) when x fits a usize, else Err.
TryFrom(x) == IF x <= UsizeMax THEN Some(x) ELSE None

\* BitSetMut::insert(index) on an exclusively owned array: try_from(..).unwrap()
\* panics when the word index does not fit a usize; Err(slot_idx) when the word
\* index is out of bounds.
MutInsert(t, index) ==
    /\ CanCall(t)
    /\ seq
    /\ LET conv == TryFrom(index \div Bits)
           slot_idx == Slot(conv)
           mask == Shl1(index % Bits)
           got == IF conv = None THEN None ELSE Get(slot_idx)
           old_value == PrevBit(bitset[Slot(got)], mask)
       IN  /\ bitset' = IF got = None THEN bitset
                        ELSE [bitset EXCEPT ![Slot(got)] = BitOr(@, mask)]
           /\ th' = [th EXCEPT ![t] =
                        IF conv = None
                        THEN [Idle EXCEPT !.pc = "panic", !.op = "mutinsert", !.arg = index]
                        ELSE IF got = None
                        THEN Done("mutinsert", index, None, Some(slot_idx), Expected(index))
                        ELSE Done("mutinsert", index, Some(old_value), None, Expected(index))]
           /\ firsts' = IF got # None /\ ~old_value THEN Bump(firsts, index) ELSE firsts
           /\ shadow' = Put(shadow, index, TRUE)
    /\ Snapshot
    /\ NoteFreed(None)
    /\ UNCHANGED <<rotation, allocClaims, seq, exhaust, won, track, vec, vecPre, stored, drain>>

\* BitSetMut::remove(index): try_from(..).ok()? and get_mut(..)? give None when
\* the word index does not fit a usize or is out of bounds.
MutRemove(t, index) ==
    /\ CanCall(t)
    /\ seq
    /\ LET conv == TryFrom(index \div Bits)
           mask == Shl1(index % Bits)
           got == IF conv = None THEN None ELSE Get(Slot(conv))
           ret == IF got = None THEN None
                  ELSE Some(PrevBit(bitset[Slot(got)], mask))
       IN  /\ bitset' = IF got = None THEN bitset
                        ELSE [bitset EXCEPT ![Slot(got)] = BitAnd(@, BitNot(mask))]
           /\ th' = [th EXCEPT ![t] = Done("mutremove", index, ret, None, Expected(index))]
           /\ NoteFreed(IF ret = Some(TRUE) THEN Some(index) ELSE None)
    /\ firsts' = Put(firsts, index, 0)
    /\ allocClaims' = Put(allocClaims, index, 0)
    /\ shadow' = Put(shadow, index, FALSE)
    /\ Snapshot
    /\ UNCHANGED <<rotation, seq, exhaust, won, track, vec, vecPre, stored, drain>>

\* BitSetMut::clear: every word set to 0.
MutClear(t) ==
    /\ CanCall(t)
    /\ seq
    /\ bitset' = [s \in SlotIdx |-> 0]
    /\ th' = [th EXCEPT ![t] = Done("mutclear", 0, None, None, None)]
    /\ ForgetSlots(SlotIdx)
    /\ Snapshot
    /\ NoteFreed(None)
    /\ UNCHANGED <<rotation, seq, exhaust, won, track, vec, vecPre, stored, drain>>

\* ----------------------------------------------------- BitSetMut for Vec<T>
\* The calls of the Vec go to the slice it owns: the slice operations above, on
\* a sequence of words of any length.

\* BitSetMut::insert for [T] on the words v: the outcome and the words after it.
SliceInsert(v, index) ==
    LET conv == TryFrom(index \div Bits)
        slot_idx == Slot(conv)
        mask == Shl1(index % Bits)
    IN  IF conv = None THEN [kind |-> "panic", val |-> 0, v |-> v]
        ELSE IF slot_idx >= Len(v) THEN [kind |-> "err", val |-> slot_idx, v |-> v]
        ELSE [kind |-> "ok", val |-> PrevBit(v[slot_idx + 1], mask),
              v |-> [v EXCEPT ![slot_idx + 1] = BitOr(@, mask)]]

\* BitSetMut::remove for [T] on the words v.
SliceRemove(v, index) ==
    LET conv == TryFrom(index \div Bits)
        slot_idx == Slot(conv)
        mask == Shl1(index % Bits)
    IN  IF conv = None \/ slot_idx >= Len(v) THEN [ret |-> None, v |-> v]
        ELSE [ret |-> Some(PrevBit(v[slot_idx + 1], mask)),
              v |-> [v EXCEPT ![slot_idx + 1] = BitAnd(@, BitNot(mask))]]

\* Vec::resize(new_len, 0): cut to new_len, or filled up with zero words.
Resize(v, new_len) ==
    IF new_len <= Len(v) THEN SubSeq(v, 1, new_len)
    ELSE v \o [p \in 1..(new_len - Len(v)) |-> 0]

\* BitSetMut::insert for Vec<T>: the slice's insert; on Err(slot_index) the Vec
\* is resized to slot_index + 1 words and the insert is made again.  The sum
\* slot_index + 1 overflows a usize when slot_index is usize::MAX: a build with
\* overflow checks panics there, a build without them wraps to 0.
VecInsert(t, index) ==
    /\ CanCall(t)
    /\ seq
    /\ \E overflow_checks \in BOOLEAN :
         LET first == SliceInsert(vec, index)
             wraps == first.val + 1 > UsizeMax
             again == SliceInsert(Resize(vec, (first.val + 1) % (UsizeMax + 1)), index)
             call == [Idle EXCEPT !.op = "vecinsert", !.arg = index]
             end(r) == IF r.kind = "ok"
                       THEN [call EXCEPT !.pc = "done", !.ret = Some(r.val)]
                       ELSE IF r.kind = "err"
                       THEN [call EXCEPT !.pc = "done", !.err = Some(r.val)]
                       ELSE [call EXCEPT !.pc = "panic"]
         IN  IF first.kind # "err"
             THEN vec' = first.v /\ th' = [th EXCEPT ![t] = end(first)]
             ELSE IF wraps /\ overflow_checks
             THEN vec' = vec /\ th' = [th EXCEPT ![t] = [call EXCEPT !.pc = "panic"]]
             ELSE vec' = again.v /\ th' = [th EXCEPT ![t] = end(again)]
    /\ vecPre' = vec
    /\ UNCHANGED <<bitset, rotation, seq, exhaust, won, track, stored, pre, freed, drain>>
    /\ ghostSame

\* BitSetMut::remove for Vec<T>: the slice's remove.
VecRemove(t, index) ==
    /\ CanCall(t)
    /\ seq
    /\ LET r == SliceRemove(vec, index)
       IN  /\ vec' = r.v
           /\ th' = [th EXCEPT ![t] =
                        [Idle EXCEPT !.pc = "done", !.op = "vecremove", !.arg = index,
                                     !.ret = r.ret]]
    /\ vecPre' = vec
    /\ UNCHANGED <<bitset, rotation, seq, exhaust, won, track, stored, pre, freed, drain>>
    /\ ghostSame

\* BitSetMut::clear for Vec<T>: Vec::clear, which leaves no word at all.
VecClear(t) ==
    /\ CanCall(t)
    /\ seq
    /\ vec' = <<>>
    /\ th' = [th EXCEPT ![t] = [Idle EXCEPT !.pc = "done", !.op = "vecclear"]]
    /\ vecPre' = vec
    /\ UNCHANGED <<bitset, rotation, seq, exhaust, won, track, stored, pre, freed, drain>>
    /\ ghostSame

\* The caller takes the result of a call on the Vec.
VecReturn(t) ==
    /\ th[t].pc = "done"
    /\ th' = [th EXCEPT ![t] = Idle]
    /\ vecPre' = <<>>
    /\ UNCHANGED <<bitset, rotation, seq, exhaust, won, track, stored, pre, freed, drain, vec>>
    /\ ghostSame

\* -------------------------------- the caller's allocate-until-exhausted loop
\* tests/bitset.rs: while let Some(_) = bitset.set_next_free_bit() {}, then one
\* more call, then size().

\* The loop begins: the caller's next calls are allocator calls only.
BeginDrain(t) ==
    /\ CanCall(t)
    /\ seq
    /\ drain' = [NoDrain EXCEPT !.phase = "loop", !.start = bitset]
    /\ UNCHANGED <<bitset, rotation, th, seq, exhaust, won, track, vec, vecPre, stored, pre, freed>>
    /\ ghostSame

\* The loop takes the result of one allocator call: Some(_) goes round again,
\* None ends the loop; the call after the loop is followed by size().
DrainTake(t) ==
    /\ th[t].pc = "done"
    /\ drain.phase \in {"loop", "after"}
    /\ drain' =
         IF drain.phase = "after"
         THEN [drain EXCEPT !.phase = "end", !.last = th[t].ret, !.size = Size(bitset)]
         ELSE IF th[t].ret = None
         THEN [drain EXCEPT !.phase = "after"]
         ELSE [drain EXCEPT !.got = @ \cup th[t].ret,
                            !.n = IF @ > Capacity THEN @ ELSE @ + 1]
    /\ th' = [th EXCEPT ![t] = Idle]
    /\ NoteFreed(None)
    /\ NoteTaken(th[t])
    /\ pre' = NoPre
    /\ UNCHANGED <<bitset, rotation, seq, won, track, vec, vecPre, stored>>
    /\ ghostSame

\* The caller is done with the loop's outcome.
EndDrain(t) ==
    /\ th[t].pc = "idle"
    /\ drain.phase = "end"
    /\ drain' = NoDrain
    /\ UNCHANGED <<bitset, rotation, th, seq, exhaust, won, track, vec, vecPre, stored, pre, freed>>
    /\ ghostSame

\* ------------------------------------------------------- specifications
\* Threads share the set and call the shared operations in any interleaving.
Next ==
    \/ \E t \in Threads : BeginAlloc(t)
    \/ \E t \in Threads : FetchLoad(t)
    \/ \E t \in Threads : CasOk(t)
    \/ \E t \in Threads : CasFail(t)
    \/ \E t \in Threads : StoreRotation(t)
    \/ \E t \in Threads, i \in Indices : Insert(t, i)
    \/ \E t \in Threads, i \in Indices : Remove(t, i)
    \/ \E t \in Threads : BeginClear(t)
    \/ \E t \in Threads : ClearStore(t)
    \/ \E t \in Threads : Return(t)

Spec == Init /\ [][Next]_vars

\* The steps of thread t inside an allocator call it has begun.
AllocStep(t) == FetchLoad(t) \/ CasOk(t) \/ CasFail(t) \/ StoreRotation(t)

\* Any step of thread t.
ThreadNext(t) ==
    \/ BeginAlloc(t) \/ AllocStep(t)
    \/ \E i \in Indices : Insert(t, i) \/ Remove(t, i)
    \/ BeginClear(t) \/ ClearStore(t) \/ Return(t)

\* Threads share the set, and a thread inside an allocator call is scheduled
\* again: the call is a loop with no lock and no wait in it.
SpecFair == Spec /\ \A t \in Threads : WF_vars(AllocStep(t))

\* Threads share a set of no word or of NumSlots words and call the shared
\* operations in any interleaving.
SpecLen == InitLen /\ [][Next]_vars

\* Threads share the set; the words seen all ones and the bits freed during
\* each allocator call are recorded.
SpecFull == InitFull /\ [][Next]_vars

\* Threads share the set; the failed compare-exchanges of each call on a word
\* and the writes of other threads to that word are counted.
SpecRetry == InitRetry /\ [][Next]_vars

\* Thread t may take steps: any thread of a shared set, the owner of an owned one.
Runs(t) == seq => t = Owner

\* Allocator, insert and remove calls: by one owner, call after call, or by
\* threads in any interleaving.
CursorNext ==
    \/ \E t \in Threads : Runs(t) /\ BeginAlloc(t)
    \/ \E t \in Threads : Runs(t) /\ FetchLoad(t)
    \/ \E t \in Threads : Runs(t) /\ CasOk(t)
    \/ \E t \in Threads : Runs(t) /\ CasFail(t)
    \/ \E t \in Threads : Runs(t) /\ StoreRotation(t)
    \/ \E t \in Threads, i \in 0..(Capacity - 1) : Runs(t) /\ Insert(t, i)
    \/ \E t \in Threads, i \in 0..(Capacity - 1) : Runs(t) /\ Remove(t, i)
    \/ \E t \in Threads : Runs(t) /\ Return(t)

SpecCursor == InitCursor /\ [][CursorNext]_vars

\* One owner calls the shared and the exclusive operations one after another.
SeqNext ==
    \/ BeginAlloc(Owner)
    \/ FetchLoad(Owner)
    \/ CasOk(Owner)
    \/ StoreRotation(Owner)
    \/ \E i \in Indices : Insert(Owner, i)
    \/ \E i \in Indices : Remove(Owner, i)
    \/ BeginClear(Owner)
    \/ ClearStore(Owner)
    \/ \E i \in Indices : HasCall(Owner, i)
    \/ CapacityCall(Owner)
    \/ \E n \in 0..IndexMax : FromBitsCall(Owner, n)
    \/ \E n \in 0..IndexMax : DeclaredCapacityCall(Owner, n)
    \/ \E i \in MutIndices : MutInsert(Owner, i)
    \/ \E i \in MutIndices : MutRemove(Owner, i)
    \/ MutClear(Owner)
    \/ BeginDrain(Owner)
    \/ DrainTake(Owner)
    \/ EndDrain(Owner)
    \/ Return(Owner)

SpecSeq == InitSeq /\ [][SeqNext]_vars

\* Capacity + 1 threads call the allocator once each on a new set, and keep
\* their results.
OnceNext ==
    \/ \E t \in Procs : BeginAlloc(t)
    \/ \E t \in Procs : FetchLoad(t)
    \/ \E t \in Procs : CasOk(t)
    \/ \E t \in Procs : CasFail(t)
    \/ \E t \in Procs : StoreRotation(t)

SpecOnce == InitOnce /\ [][OnceNext]_vars

\* One owner calls the operations of a growable set one after another.
VecNext ==
    \/ \E i \in MutIndices : VecInsert(Owner, i)
    \/ \E i \in MutIndices : VecRemove(Owner, i)
    \/ VecClear(Owner)
    \/ VecReturn(Owner)

SpecVec == InitSeq /\ [][VecNext]_vars

\* ------------------------------------------------------------ properties
\* The indices whose bit is 1, read off the words bit by bit.
SetBits(slots) == {i \in 0..(Capacity - 1) : BitOf(slots[i \div Bits], i % Bits) = 1}
FreeBits(slots) == (0..(Capacity - 1)) \ SetBits(slots)
Min(S) == CHOOSE x \in S : \A y \in S : x <= y
\* The owner's call has returned and was op.
Returned(t, ops) == th[t].pc = "done" /\ th[t].op \in ops
InRange(t) == th[t].arg < Capacity

\* C1: no index is handed out by two allocator calls unless a remove of it or
\* a clear of its word took effect between the two claims; an index handed out
\* and not freed since has its bit set.
C1_UniqueClaim ==
    \A i \in 0..(Capacity - 1) :
        /\ allocClaims[i] <= 1
        /\ allocClaims[i] = 1 => i \in SetBits(bitset)

\* Two threads hold the results of allocator calls that went for the same word.
C1_Witness ==
    /\ Returned(1, {"alloc"}) /\ Returned(2, {"alloc"})
    /\ th[1].ret = Some(0) /\ th[2].ret = Some(1)
    /\ allocClaims[0] = 1 /\ allocClaims[1] = 1

AllDone == \A t \in Procs : th[t].pc = "done"
Winners == {t \in Procs : th[t].pc = "done" /\ th[t].ret # None}

\* C2: Capacity + 1 threads call the allocator once each on a new set: no index
\* is ever returned twice, and when all have returned exactly Capacity calls
\* returned an index, the indices are all of 0..Capacity-1, and one call
\* (threads minus capacity) returned None.
C2_AllocateOnce ==
    /\ \A t, u \in Winners : t # u => th[t].ret # th[u].ret
    /\ AllDone =>
         /\ Cardinality(Winners) = Capacity
         /\ UNION {th[t].ret : t \in Winners} = 0..(Capacity - 1)
         /\ Cardinality(Procs \ Winners) = Cardinality(Procs) - Capacity

\* Every thread has returned, and the last thread got None.
C2_Witness == AllDone /\ th[Capacity + 1].ret = None /\ rotation = NumSlots - 1

\* C3: in a sequential run the allocator returns None exactly when no bit was
\* free when it was called, whatever the cursor; an index it returns was free
\* before the call and is set after it.
C3_NoneIffFull ==
    Returned(Owner, {"alloc"}) =>
        /\ th[Owner].ret = None <=> FreeBits(pre.bitset) = {}
        /\ \A r \in th[Owner].ret : r \in FreeBits(pre.bitset) /\ r \in SetBits(bitset)

\* The cursor pointed at a full last word and the call found its bit by
\* wrapping round to the first word.
C3_Witness ==
    /\ Returned(Owner, {"alloc"})
    /\ pre.rotation = NumSlots - 1
    /\ pre.bitset[NumSlots - 1] = WordMax
    /\ th[Owner].ret = Some(1)

\* C4: a sequential loop of allocator calls up to the first None, begun with s
\* bits set, gets exactly Capacity - s indices, pairwise distinct and all free
\* when the loop began; the next call returns None and size() is the capacity.
C4_DrainExact ==
    drain.phase = "end" =>
        /\ drain.n = Capacity - Cardinality(SetBits(drain.start))
        /\ Cardinality(drain.got) = drain.n
        /\ drain.got \subseteq FreeBits(drain.start)
        /\ drain.last = None
        /\ drain.size = Capacity

\* A loop that began with bits both set and free, and the cursor off word 0.
C4_Witness ==
    /\ drain.phase = "end"
    /\ drain.n >= 2
    /\ drain.start[0] # 0 /\ drain.start[0] # WordMax
    /\ rotation # 0

\* C5 as stated: in a sequential run, the allocator call that follows a remove
\* which freed an index returns the lowest free index of the whole set.
C5_LowestOfAll ==
    (Returned(Owner, {"alloc"}) /\ freed # None) =>
        th[Owner].ret = Some(Min(FreeBits(pre.bitset)))

\* The lowest free index at or after the first bit of word c, else the lowest
\* free index of all.
LowestFreeFrom(slots, c) ==
    LET after == {i \in FreeBits(slots) : i >= c * Bits}
    IN  IF after # {} THEN Min(after) ELSE Min(FreeBits(slots))

\* C5, amended: the allocator call that follows a remove which freed an index
\* returns the lowest free index in the cyclic order that starts at the
\* cursor's word; that is the lowest free index of the whole set when the
\* cursor is 0.
C5_LowestFromCursor ==
    (Returned(Owner, {"alloc"}) /\ freed # None) =>
        /\ th[Owner].ret = Some(LowestFreeFrom(pre.bitset, pre.rotation))
        /\ pre.rotation = 0 => th[Owner].ret = Some(Min(FreeBits(pre.bitset)))

\* Index 0 was freed, the cursor was on the last word, and the call returned a
\* higher index than 0.
C5_Witness ==
    /\ Returned(Owner, {"alloc"})
    /\ freed = Some(0)
    /\ pre.rotation = NumSlots - 1
    /\ \E r \in th[Owner].ret : r > 0

\* C6: of the calls that set a bit which was free (inserts that return
\* previous = false, allocator calls that return the index) exactly one reports
\* it, until the bit is freed again: a set bit has one such report, a free bit
\* none.
C6_OneFirstSetter ==
    \A i \in 0..(Capacity - 1) :
        /\ firsts[i] <= 1
        /\ i \in SetBits(bitset) <=> firsts[i] = 1

\* Two threads inserted the same free index: one got previous = false, the
\* other previous = true.
C6_Witness ==
    /\ Returned(1, {"insert"}) /\ Returned(2, {"insert"})
    /\ th[1].arg = 1 /\ th[2].arg = 1
    /\ th[1].ret = Some(TRUE) /\ th[2].ret = Some(FALSE)

\* C7: shared inserts and removes never lose each other's updates: each bit
\* holds the effect of the last operation on it, and each insert or remove
\* returns the value its bit held just before its atomic update.
C7_NoLostUpdate ==
    /\ \A i \in 0..(Capacity - 1) : shadow[i] <=> i \in SetBits(bitset)
    /\ \A t \in Threads : Returned(t, {"insert", "remove"}) => th[t].ret = th[t].exp

\* One thread inserted bit 1 and the other removed the set bit 0 of the same
\* word; the word holds exactly bit 1.
C7_Witness ==
    /\ Returned(1, {"insert"}) /\ th[1].arg = 1 /\ th[1].ret = Some(FALSE)
    /\ Returned(2, {"remove"}) /\ th[2].arg = 0 /\ th[2].ret = Some(TRUE)
    /\ bitset[0] = 2

Inserts == {"insert", "mutinsert"}
Removes == {"remove", "mutremove"}

\* C8: in a sequential run, a shared or exclusive insert(i) or remove(i) of an
\* in-range index returns the previous value of bit i; afterwards has(i) is
\* true after insert and false after remove; no other bit changes; an insert
\* of a set bit changes nothing at all.
C8_InsertRemove ==
    (Returned(Owner, Inserts \cup Removes) /\ InRange(Owner)) =>
        LET i == th[Owner].arg
            was == i \in SetBits(pre.bitset)
        IN  /\ th[Owner].ret = Some(was)
            /\ th[Owner].err = None
            /\ Has(bitset, i) <=> th[Owner].op \in Inserts
            /\ SetBits(bitset) \ {i} = SetBits(pre.bitset) \ {i}
            /\ (th[Owner].op \in Inserts /\ was) =>
                  bitset = pre.bitset /\ rotation = pre.rotation

\* A remove of a set bit in a word that holds another set bit.
C8_Witness ==
    /\ Returned(Owner, {"remove"})
    /\ th[Owner].arg = 0
    /\ th[Owner].ret = Some(TRUE)
    /\ bitset[0] = 2

\* C9 as stated: a shared insert of an in-range index returns true when the
\* index was not set before the call and false when it was.
C9_TrueIfNew ==
    (Returned(Owner, {"insert"}) /\ InRange(Owner)) =>
        th[Owner].ret = Some(th[Owner].arg \notin SetBits(pre.bitset))

\* C10: for an index at or beyond the capacity, the shared insert and the
\* shared and exclusive remove return None, has returns false, and no word and
\* not the cursor is changed.
C10_OutOfRange ==
    (Returned(Owner, {"insert", "remove", "mutremove", "has"}) /\ ~InRange(Owner)) =>
        /\ th[Owner].ret = IF th[Owner].op = "has" THEN Some(FALSE) ELSE None
        /\ ~Has(bitset, th[Owner].arg)
        /\ bitset = pre.bitset
        /\ rotation = pre.rotation

\* An insert of the index equal to the capacity on a set whose bit 0 is free.
C10_Witness ==
    /\ Returned(Owner, {"insert"})
    /\ th[Owner].arg = Capacity
    /\ th[Owner].ret = None
    /\ 0 \in FreeBits(bitset)
    /\ bitset[NumSlots - 1] # 0

\* C11 as stated: an exclusive insert of any index of the index type at or
\* beyond the capacity returns the error carrying the word index i \div Bits,
\* changes no word, and does not panic.
C11_ErrNoPanic ==
    (th[Owner].op = "mutinsert" /\ th[Owner].pc \in {"done", "panic"} /\ ~InRange(Owner)) =>
        /\ th[Owner].pc = "done"
        /\ th[Owner].ret = None
        /\ th[Owner].err = Some(th[Owner].arg \div Bits)
        /\ bitset = pre.bitset

\* The indices whose bit is 1 in the words of a Vec.
VecBits(v) == {i \in 0..(Len(v) * Bits - 1) : BitOf(v[(i \div Bits) + 1], i % Bits) = 1}

\* C12 as stated: an exclusive insert on a Vec never returns an error (nor
\* panics); beyond the capacity it extends the Vec to exactly i \div Bits + 1
\* words, the new ones zero but for bit i, keeps every set bit, and returns
\* previous = false; within the capacity the length stays.  A remove never
\* changes the length and returns None beyond the current length.
C12_VecGrows ==
    LET i == th[Owner].arg
        cap == Len(vecPre) * Bits
    IN  /\ (th[Owner].op = "vecinsert" /\ th[Owner].pc \in {"done", "panic"}) =>
              /\ th[Owner].pc = "done" /\ th[Owner].err = None
              /\ i \in VecBits(vec)
              /\ VecBits(vec) = VecBits(vecPre) \cup {i}
              /\ i >= cap => Len(vec) = (i \div Bits) + 1 /\ th[Owner].ret = Some(FALSE)
              /\ i < cap => Len(vec) = Len(vecPre)
        /\ Returned(Owner, {"vecremove"}) =>
              /\ Len(vec) = Len(vecPre)
              /\ i >= cap => th[Owner].ret = None /\ vec = vecPre

\* C13: in a sequential run size() is the number of indices below the capacity
\* for which has() is true, and is_empty() is true exactly when size() is 0;
\* when clear() has returned, size() is 0, is_empty() is true and has(i) is
\* false for every i; while no insert or allocation is in effect (as before
\* any mutation) has(i) is false for every i.
C13_SizeCountsHas ==
    /\ Size(bitset) = Cardinality({i \in 0..(Capacity - 1) : Has(bitset, i)})
    /\ IsEmpty(bitset) <=> Size(bitset) = 0
    /\ Returned(Owner, {"clear", "mutclear"}) =>
          /\ Size(bitset) = 0
          /\ IsEmpty(bitset)
          /\ \A i \in Indices : ~Has(bitset, i)
    /\ (\A i \in 0..(Capacity - 1) : firsts[i] = 0 /\ ~shadow[i]) =>
          \A i \in Indices : ~Has(bitset, i)

\* A clear() has returned on a set that held three bits over two words, with
\* the cursor off word 0.
C13_Witness ==
    /\ Returned(Owner, {"clear"})
    /\ Size(pre.bitset) = 3
    /\ pre.bitset[0] = WordMax
    /\ rotation # 0
    /\ Size(bitset) = 0

\* Thread t is inside an allocator call.
InAlloc(t) == th[t].pc \in {"load", "cas", "store"}
\* A step of a thread other than t.
OtherStep(t) == \E u \in Threads \ {t} : ThreadNext(u)

\* C14: when every thread inside an allocator call keeps being scheduled and
\* the threads other than t take only finitely many steps, an allocator call of
\* t returns, an index or None.
C14_Terminates ==
    \A t \in Threads :
        <>[][~OtherStep(t)]_vars => (InAlloc(t) ~> Returned(t, {"alloc"}))

\* A call returned None on a full set whose last free bit the other thread's
\* insert had set.
C14_Witness ==
    /\ Returned(1, {"alloc"}) /\ th[1].ret = None
    /\ Returned(2, {"insert"}) /\ th[2].ret = Some(FALSE)
    /\ rotation = NumSlots - 1
    /\ \A s \in SlotIdx : bitset[s] = WordMax

\* C15 as stated: the failed compare-exchanges of one allocator call on one
\* word are at most the number of other threads.
C15_FailsBoundedByThreads ==
    \A t \in Threads : th[t].fails <= NumThreads - 1

\* The compare-exchange of thread t would fail now: the word is no longer the
\* value the call read.
Pending(t) == IF ~CasSucceeds(bitset[SlotAt(th[t])], th[t].curr) THEN 1 ELSE 0

\* C15, amended: the failed compare-exchanges of one allocator call on one
\* word, the one about to fail included, are at most the number of writes by
\* which other threads changed that word since the call first read it.
C15_FailsBoundedByWrites ==
    \A t \in Threads :
        /\ th[t].pc = "cas" => th[t].fails + Pending(t) <= th[t].writes
        /\ th[t].pc # "cas" => th[t].fails = 0

\* One call has failed twice on a word that the one other thread changed three
\* times, and may still succeed on it.
C15_Witness ==
    /\ th[1].pc = "cas" /\ th[1].fails = 2 /\ th[1].writes = 3
    /\ FetchUpdateFn(bitset[SlotAt(th[1])]) # None

\* C16 as stated: capacity() is the number of words times the bits of a word,
\* whatever calls were made before; from_bits(n) is the least k with
\* k * Bits >= n; and capacity() of a set declared with from_bits(n) words is
\* that product, at least n.
C16_CapacityExact ==
    LET n == th[Owner].arg
    IN  /\ Returned(Owner, {"capacity"}) => th[Owner].ret = Some(NumSlots * Bits)
        /\ Returned(Owner, {"from_bits"}) =>
              \A k \in th[Owner].ret :
                  /\ k * Bits >= n
                  /\ n > 0 => (k - 1) * Bits < n
                  /\ n = 0 => k = 0
        /\ (th[Owner].op = "declared" /\ th[Owner].pc \in {"done", "panic"}) =>
              /\ th[Owner].pc = "done"
              /\ th[Owner].ret = Some(FromBits(n) * Bits)
              /\ \A c \in th[Owner].ret : c >= n

\* The words in cyclic order from word c: c, c + 1, ..., NumSlots - 1, 0, ..., c - 1.
CyclicFrom(c) == [p \in 1..NumSlots |-> (c + p - 1) % NumSlots]
\* The bits of word x that are 0.
ZeroBits(x) == {b \in 0..(Bits - 1) : BitOf(x, b) = 0}

\* C17: in a sequential run a successful allocator call returns w * Bits + b,
\* w the first word in cyclic order from the cursor that is not all ones, b the
\* lowest zero bit of w; it sets that bit and changes no other bit.
C17_FirstInCyclicOrder ==
    (Returned(Owner, {"alloc"}) /\ th[Owner].ret # None) =>
        LET order == CyclicFrom(pre.rotation)
            open == {p \in 1..NumSlots : pre.bitset[order[p]] # WordMax}
            w == order[Min(open)]
            b == Min(ZeroBits(pre.bitset[w]))
        IN  /\ open # {}
            /\ th[Owner].ret = Some(w * Bits + b)
            /\ SetBits(bitset) = SetBits(pre.bitset) \cup {w * Bits + b}
            /\ w * Bits + b \notin SetBits(pre.bitset)

\* The cursor was on the last word, whose lowest bit was set, and every word
\* before it was empty: the call took the second bit of the last word.
C17_Witness ==
    /\ Returned(Owner, {"alloc"})
    /\ pre.rotation = NumSlots - 1
    /\ pre.bitset[NumSlots - 1] = 1
    /\ \A s \in 0..(NumSlots - 2) : pre.bitset[s] = 0
    /\ th[Owner].ret = Some((NumSlots - 1) * Bits + 1)

\* Thread t takes this step, inside an allocator call or to begin one.
AllocStepOf(t) ==
    /\ th'[t] # th[t]
    /\ th[t].pc \in {"load", "cas", "store"} \/ (th[t].pc = "idle" /\ th'[t].op = "alloc")

\* C18: the cursor is written only by the last step of an allocator call that
\* succeeded at a word other than the one it read from the cursor, with that
\* word's index; a call that succeeds on the word it read returns at once; no
\* other step of an allocator call changes the cursor, and only the successful
\* compare-exchange changes a word, so a call that returns None changes nothing.
C18_CursorFrame ==
    [][/\ rotation' # rotation => \E t \in Threads : AllocStepOf(t) /\ th[t].pc = "store"
       /\ \A t \in Threads : AllocStepOf(t) =>
             LET r == th[t]
                 wins == r.pc = "cas" /\ th'[t].ret # None
             IN  /\ r.pc = "store" =>
                       /\ r.ret # None /\ r.slot_idx # r.skip
                       /\ \A i \in r.ret : i \div Bits = r.slot_idx
                       /\ rotation' = r.slot_idx
                       /\ bitset' = bitset
                       /\ th'[t].pc = "done" /\ th'[t].ret = r.ret
                 /\ r.pc # "store" => rotation' = rotation
                 /\ wins => (th'[t].pc = "done" <=> r.slot_idx = r.skip)
                 /\ wins => th'[t].pc \in {"done", "store"}
                 /\ ~wins => bitset' = bitset
                 /\ (r.pc # "store" /\ th'[t].pc = "done" /\ ~wins) => th'[t].ret = None
      ]_vars

\* One call is about to write the cursor, which still holds the word both
\* calls began at; the other call has returned an index of that word.
C18_Witness ==
    /\ th[1].pc = "store" /\ th[1].slot_idx = NumSlots - 1 /\ th[1].skip = 0
    /\ rotation = 0
    /\ Returned(2, {"alloc"}) /\ th[2].ret = Some(Bits - 1)

\* No allocator call is in progress.
Quiet == \A t \in Threads : th[t].pc \notin {"load", "cas", "store"}

\* C19 as stated: when no allocator call is in progress and an allocation has
\* succeeded, the cursor is the word of the most recent successful allocation,
\* in a sequential run and under any interleaving.
C19_CursorIsLastWord ==
    (Quiet /\ won.last # None) => won.last = Some(rotation)

\* C19, amended: when no allocator call is in progress and an allocation has
\* succeeded, the cursor is the word of the most recent successful allocation
\* in a sequential run, and the word of some successful allocation under any
\* interleaving.
C19_CursorIsAWonWord ==
    (Quiet /\ won.last # None) =>
        /\ rotation \in won.words
        /\ seq => won.last = Some(rotation)

\* A sequential run: the last allocation succeeded in the last word, a later
\* remove freed index 0, and the cursor is on the last word.
C19_Witness ==
    /\ seq /\ Quiet
    /\ won.last = Some(NumSlots - 1) /\ won.words = SlotIdx
    /\ rotation = NumSlots - 1
    /\ Returned(Owner, {"remove"}) /\ th[Owner].arg = 0 /\ th[Owner].ret = Some(TRUE)

\* C20: in a sequential run, when an allocator call has returned None, the
\* remove of an in-range index i called next finds i set and frees it, and the
\* allocator call made right after that returns i, whatever the cursor.
C20_FreedIsReused ==
    /\ (Returned(Owner, Removes) /\ InRange(Owner) /\ exhaust = 1) =>
          th[Owner].ret = Some(TRUE) /\ freed = Some(th[Owner].arg)
    /\ (Returned(Owner, {"alloc"}) /\ exhaust = 2 /\ freed # None) =>
          th[Owner].ret = freed /\ freed \subseteq 0..(Capacity - 1)

\* After a None, the remove of an index of the first word, with the cursor on
\* the last word: the allocator call returned that index.
C20_Witness ==
    /\ Returned(Owner, {"alloc"})
    /\ exhaust = 2
    /\ freed = Some(1)
    /\ pre.rotation = NumSlots - 1
    /\ th[Owner].ret = Some(1)

\* The words that differ between this state and the next.
ChangedSlots == {s \in SlotIdx : bitset'[s] # bitset[s]}

\* Thread t alone takes this step.
StepOf(t) == th'[t] # th[t] /\ \A u \in Threads \ {t} : th'[u] = th[u]

\* C21: under any interleaving a step that changes a word changes one word
\* only, is taken by one thread, and is one of: insert(i) setting the free bit
\* i and nothing else; a successful compare-exchange of an allocator call
\* setting one free bit i and nothing else, i being the index the call then
\* returns; remove(i) clearing the set bit i and nothing else; one store of
\* clear() that leaves one word 0.  No step sets a bit other than the index
\* the call was given or returns.
C21_AtomicBitSteps ==
    [][/\ bitset' # bitset =>
            /\ Cardinality(ChangedSlots) = 1
            /\ \E t \in Threads :
                  LET r == th'[t]
                      old == SetBits(bitset)
                      new == SetBits(bitset')
                  IN  /\ StepOf(t)
                      /\ \/ /\ r.op = "insert" /\ th[t].pc = "idle" /\ r.pc = "done"
                            /\ r.arg \notin old /\ new = old \cup {r.arg}
                            /\ r.ret = Some(FALSE)
                         \/ /\ r.op = "alloc" /\ th[t].pc = "cas" /\ r.pc \in {"store", "done"}
                            /\ \E i \in r.ret : i \notin old /\ new = old \cup {i}
                         \/ /\ r.op = "remove" /\ th[t].pc = "idle" /\ r.pc = "done"
                            /\ r.arg \in old /\ new = old \ {r.arg}
                            /\ r.ret = Some(TRUE)
                         \/ /\ r.op = "clear" /\ th[t].pc \in {"idle", "clear"}
                            /\ \E s \in SlotIdx : bitset' = [bitset EXCEPT ![s] = 0]
       /\ \A t \in Threads :
             (th[t].pc = "store" /\ th'[t] # th[t]) =>
                 th'[t].pc = "done" /\ th'[t].ret = th[t].ret /\ bitset' = bitset
      ]_vars

\* One thread is between two stores of clear(): the first word is 0 and the
\* last still full; the other thread has claimed a bit of the last word with
\* its compare-exchange and has not returned yet.
C21_Witness ==
    /\ th[1].pc = "clear"
    /\ bitset[0] = 0 /\ bitset[NumSlots - 1] = WordMax
    /\ th[2].pc = "store" /\ th[2].ret = Some(Capacity - 1)

\* Thread t is inside an allocator call, past the load of the cursor.
Scanning(t) == th[t].pc \in {"load", "cas", "store"}

\* C22: under any interleaving, in a set of at least one word the cursor, every
\* value a load of it can return, and the skip and slot_idx of every call in
\* progress are word indices below the number of words, so rotate_left's
\* split_at never panics; in a set of no words an allocator call returns None
\* at once, never enters its loop, and the cursor stays as new() left it.
C22_CursorInBounds ==
    /\ SelfLen >= 1 =>
          /\ rotation < SelfLen
          /\ \A v \in stored : v < SelfLen
          /\ \A t \in Threads :
                /\ th[t].pc # "panic"
                /\ Scanning(t) =>
                      /\ th[t].skip < SelfLen /\ th[t].slot_idx < SelfLen
                      /\ th[t].pos \in 1..SelfLen
                      /\ SlotAt(th[t]) = th[t].slot_idx
    /\ SelfLen = 0 =>
          /\ rotation = 0 /\ stored = {0} /\ bitset = <<>>
          /\ \A t \in Threads :
                /\ th[t].pc # "panic" /\ ~Scanning(t)
                /\ th[t].op = "alloc" => th[t].pc = "done" /\ th[t].ret = None

\* The cursor is on the last word; a call that began there found it full,
\* wrapped round to word 0, claimed a bit of it and is about to store 0.
C22_Witness ==
    /\ SelfLen = NumSlots
    /\ rotation = NumSlots - 1
    /\ \E t \in Threads :
          /\ th[t].pc = "store"
          /\ th[t].skip = NumSlots - 1 /\ th[t].slot_idx = 0 /\ th[t].pos = NumSlots

\* Both callers of a set of no words hold the None of an allocator call.
C22_EmptyReached ==
    SelfLen = 0 /\ \A t \in Threads : Returned(t, {"alloc"}) /\ th[t].ret = None

\* Thread t's allocator call returns None in this step.
ReturnsNone(t) ==
    /\ th[t].pc \in {"load", "cas"}
    /\ th'[t].pc = "done" /\ th'[t].op = "alloc" /\ th'[t].ret = None

\* C23 without its condition: every bit is set at the instant an allocator
\* call returns None.
C23_NoneMeansFullNow ==
    [][\A t \in Threads : ReturnsNone(t) => FreeBits(bitset') = {}]_vars

\* C23: under any interleaving, when an allocator call returns None every
\* word was all ones at some instant between the call's start and its return;
\* and when no remove and no store of clear freed a bit between its start and
\* its return, every bit of the set is set at the instant it returns.
C23_NoneSawAllFull ==
    [][\A t \in Threads : ReturnsNone(t) =>
          /\ th'[t].full = SlotIdx
          /\ th'[t].full = th[t].full \cup FullSlots(bitset')
          /\ ~th'[t].hit => FreeBits(bitset') = {}
      ]_vars

\* Both threads hold a None: during the call of one a remove freed a bit that
\* was set again before the call ended, during the call of the other no bit
\* was freed.
C23_Witness ==
    /\ Returned(1, {"alloc"}) /\ th[1].ret = None /\ ~th[1].hit
    /\ Returned(2, {"alloc"}) /\ th[2].ret = None /\ th[2].hit
    /\ th[1].full = SlotIdx /\ th[2].full = SlotIdx

\* A thread holds a None while bits of both words are free: they were freed
\* during its call.
C23_NoneWhileFree ==
    /\ \E t \in Threads : Returned(t, {"alloc"}) /\ th[t].ret = None /\ th[t].hit
    /\ \A s \in SlotIdx : bitset[s] # WordMax

====
